---- MODULE Spec2Model ----
(***************************************************************************)
(* Model of process_video.py: the two overlay generators                   *)
(* (make_scanline_image, make_vignette_mask) and the per-frame effect      *)
(* returned by frame_effect_factory.                                       *)
(*                                                                         *)
(* Images are functions  row -> column -> pixel  with 0-based rows and     *)
(* columns; a pixel is a tuple of samples (<<r,g,b>> or <<r,g,b,a>>).      *)
(***************************************************************************)
EXTENDS Integers, Sequences, FiniteSets, TLC

VARIABLES scan, vig, pipe, other

vars == <<scan, vig, pipe, other>>

(***************************************************************************)
(* Bounds of the model.                                                    *)
(***************************************************************************)
\* largest mask / frame width and height enumerated
MaxW == 3
MaxH == 3
\* largest band height and gap enumerated for make_scanline_image
MaxLineHeight == 2
MaxGap == 2
\* transform calls made on one pipeline
MaxCalls == 2

(***************************************************************************)
(* Arithmetic helpers.                                                     *)
(***************************************************************************)
Min(a, b) == IF a <= b THEN a ELSE b

Max(a, b) == IF a >= b THEN a ELSE b

Abs(a) == IF a < 0 THEN -a ELSE a

\* C / numpy float->int conversion: truncation toward zero
TruncDiv(a, b) == IF a >= 0 THEN a \div b ELSE -((-a) \div b)

ClipNoBound(v, lo, hi) == v

\* np.clip
Clip(v, lo, hi) == IF v < lo THEN lo ELSE IF v > hi THEN hi ELSE v

\* .astype(np.uint8) of an integer value: the low 8 bits
AsUint8(v) == v % 256

\* int16 arithmetic: two's complement wrap
WrapInt16(v) == ((v + 32768) % 65536) - 32768

Height(img) == Cardinality(DOMAIN img)

Width(img) == Cardinality(DOMAIN img[0])

\* an array of rows of samples, and an array of rows of pixels, evaluated
\* once and held as explicit values
Arr2(a) == [y \in DOMAIN a |-> a[y] @@ <<>>] @@ <<>>

Arr3(a) == [y \in DOMAIN a |-> [x \in DOMAIN a[y] |-> a[y][x] @@ <<>>] @@ <<>>] @@ <<>>

MakeImg(h, w, F(_, _)) ==
    Arr3([y \in 0..(h - 1) |-> [x \in 0..(w - 1) |-> F(y, x)]])

Channels(img) == DOMAIN img[0][0]

(***************************************************************************)
(* PIL's GaussianBlur: three passes of a fractional-radius box blur along  *)
(* the rows, then three along the columns; the edge pixel is repeated and  *)
(* every pass rounds to 8 bits.  For a box radius below 1 a pass is the    *)
(* three-tap kernel (fw, ww, fw), in units of 1/65536, with                *)
(* ww = 65536 / (2r + 1) and fw = (65536 - ww) / 2.                        *)
(***************************************************************************)
BoxTap(c, l, r, ww) == (c * ww + (l + r) * ((65536 - ww) \div 2) + 32768) \div 65536

BoxBlurRows(img, ww) ==
    LET w == Width(img)
    IN Arr3([y \in DOMAIN img |-> [x \in DOMAIN img[y] |->
          [c \in Channels(img) |->
              BoxTap(img[y][x][c], img[y][Max(x - 1, 0)][c],
                     img[y][Min(x + 1, w - 1)][c], ww)]]])

BoxBlurCols(img, ww) ==
    LET h == Height(img)
    IN Arr3([y \in DOMAIN img |-> [x \in DOMAIN img[y] |->
          [c \in Channels(img) |->
              BoxTap(img[y][x][c], img[Max(y - 1, 0)][x][c],
                     img[Min(y + 1, h - 1)][x][c], ww)]]])

GaussianBlur(img, ww) ==
    LET r1 == BoxBlurRows(img, ww)
        r2 == BoxBlurRows(r1, ww)
        r3 == BoxBlurRows(r2, ww)
        c1 == BoxBlurCols(r3, ww)
        c2 == BoxBlurCols(c1, ww)
    IN BoxBlurCols(c2, ww)

(***************************************************************************)
(* make_scanline_image.  The intensity is carried in thousandths           *)
(* (num / 1000); int(255 * intensity) in IEEE double equals the exact      *)
(* floor on every such value.                                              *)
(***************************************************************************)
AlphaLineRounded(num) == (255 * num + 500) \div 1000

\* alpha_line = int(255 * intensity)
AlphaLine(num) == (255 * num) \div 1000

BandBottomOffByOne(h, y, line_height) == Min(h, y + line_height)

\* lower edge of the rectangle: min(h, y + line_height - 1), inclusive
BandBottom(h, y, line_height) == Min(h, y + line_height - 1)

\* ImageDraw.rectangle([x0, y0, x1, y1], fill): both corners inclusive,
\* clipped to the image
DrawRectangle(img, x0, y0, x1, y1, fill) ==
    Arr3([yy \in DOMAIN img |-> [xx \in DOMAIN img[yy] |->
        IF x0 <= xx /\ xx <= x1 /\ y0 <= yy /\ yy <= y1
        THEN fill ELSE img[yy][xx]]])

\* Image.new("RGBA", (w, h), (0,0,0,0))
NewRGBA(w, h) == MakeImg(h, w, LAMBDA y, x : <<0, 0, 0, 0>>)

\* one iteration of the while loop's body, the drawing part
DrawBand(img, w, h, y, line_height, alpha_line) ==
    DrawRectangle(img, 0, y, w, BandBottom(h, y, line_height),
                  <<0, 0, 0, alpha_line>>)

RECURSIVE DrawBands(_, _, _, _, _, _, _)
\* the whole while loop
DrawBands(img, w, h, y, line_height, gap, alpha_line) ==
    IF y < h
    THEN DrawBands(DrawBand(img, w, h, y, line_height, alpha_line),
                   w, h, y + line_height + gap, line_height, gap, alpha_line)
    ELSE img

\* img.filter(ImageFilter.GaussianBlur(radius=0.5)): box radius
\* (sqrt(2) - 1) / 2, so ww = 65536 / sqrt(2)
ScanlineBlur(img) == GaussianBlur(img, 46341)

make_scanline_image(w, h, num, line_height, gap) ==
    ScanlineBlur(DrawBands(NewRGBA(w, h), w, h, 0, line_height, gap, AlphaLine(num)))

\* intensities enumerated, in thousandths: 0.08 is the factory's
Intensities == {0, 1, 3, 4, 80, 500, 998, 1000}

Idle == [pc |-> "idle"]

ScanInit ==
    /\ scan \in [pc : {"loop"}, w : 1..MaxW, h : 1..(MaxH + 4),
                 num : Intensities, line_height : 1..MaxLineHeight,
                 gap : 0..MaxGap, alpha_line : {0}, y : {0}, img : {<<>>}]
    /\ vig = Idle
    /\ pipe = Idle
    /\ other = Idle

\* lines 25-28
ScanNew ==
    /\ scan.pc = "loop"
    /\ scan.img = <<>>
    /\ scan' = [scan EXCEPT !.img = NewRGBA(scan.w, scan.h),
                            !.alpha_line = AlphaLine(scan.num)]
    /\ UNCHANGED <<vig, pipe, other>>

\* lines 29-31, one iteration
ScanBand ==
    /\ scan.pc = "loop"
    /\ scan.img # <<>>
    /\ scan.y < scan.h
    /\ scan' = [scan EXCEPT
                  !.img = DrawBand(scan.img, scan.w, scan.h, scan.y,
                                   scan.line_height, scan.alpha_line),
                  !.y = scan.y + scan.line_height + scan.gap]
    /\ UNCHANGED <<vig, pipe, other>>

\* lines 33-34, after the loop has ended
ScanBlur ==
    /\ scan.pc = "loop"
    /\ scan.img # <<>>
    /\ scan.y >= scan.h
    /\ scan' = [scan EXCEPT !.img = ScanlineBlur(scan.img), !.pc = "done"]
    /\ UNCHANGED <<vig, pipe, other>>

ScanNext == ScanNew \/ ScanBand \/ ScanBlur

SpecScanline == ScanInit /\ [][ScanNext]_vars

\* the loop has ended and the blur has not run yet
Drawn == scan.pc = "loop" /\ scan.img # <<>> /\ scan.y >= scan.h

IsBandRow(y) == y % (scan.line_height + scan.gap) < scan.line_height

RowAlphaPositive(y) == \A x \in 0..(scan.w - 1) : scan.img[y][x][4] > 0

RowAlphaZero(y) == \A x \in 0..(scan.w - 1) : scan.img[y][x][4] = 0

Periodic ==
    \A y \in 0..(scan.h - 1) :
        /\ IsBandRow(y) => RowAlphaPositive(y)
        /\ ~IsBandRow(y) => RowAlphaZero(y)

\* C5 as stated: for every intensity > 0 the drawn mask has alpha > 0 exactly
\* on the rows y with y mod (line_height + gap) < line_height, 0 elsewhere.
C5_Original == (Drawn /\ scan.num > 0) => Periodic

\* C5 amended: the same for every intensity with int(255 * intensity) >= 1
\* (255 * intensity >= 1); the last band is clipped at the height.
C5_Periodicity == (Drawn /\ 255 * scan.num >= 1000) => Periodic

\* the factory's 1/2 pattern on a mask tall enough to show rows 0,3,6 dark
\* and rows 1,2,4,5 clear, and a clipped band of height 2
C5_Witness ==
    /\ Drawn
    /\ scan.num = 80 /\ scan.line_height = 1 /\ scan.gap = 2 /\ scan.h = 7
    /\ \A y \in {0, 3, 6} : RowAlphaPositive(y)
    /\ \A y \in {1, 2, 4, 5} : RowAlphaZero(y)

\* C9 as stated: band rows carry alpha = round(255 * intensity), colour 0.
C9_Original ==
    Drawn => \A y \in 0..(scan.h - 1) : \A x \in 0..(scan.w - 1) :
               IsBandRow(y) =>
                 scan.img[y][x] = <<0, 0, 0, (255 * scan.num + 500) \div 1000>>

\* C9 amended: band rows carry alpha = floor(255 * intensity) (truncation),
\* colour (0,0,0): intensity 0.5 gives 127, and alpha >= 1 needs
\* 255 * intensity >= 1.
C9_BandAlpha ==
    Drawn => \A y \in 0..(scan.h - 1) : \A x \in 0..(scan.w - 1) :
               IsBandRow(y) =>
                 scan.img[y][x] = <<0, 0, 0, (255 * scan.num) \div 1000>>

C9_Witness ==
    /\ Drawn
    /\ scan.num = 500
    /\ scan.img[0][0] = <<0, 0, 0, 127>>

(***************************************************************************)
(* IEEE single precision, as far as the vignette multiplication needs it:  *)
(* a positive value is <<m, e>> with 2^23 <= m < 2^24, standing for        *)
(* m * 2^e; zero is <<0, 0>>.  Every operation rounds to nearest, ties to  *)
(* even.                                                                   *)
(***************************************************************************)
RECURSIVE F32Round(_, _, _)
\* q * 2^e (plus a non-zero tail when sticky), q >= 2^24, rounded to 24 bits
F32Round(q, sticky, e) ==
    IF q >= 33554432
    THEN F32Round(q \div 2, sticky \/ (q % 2 = 1), e + 1)
    ELSE LET m  == q \div 2
             up == (q % 2 = 1) /\ (sticky \/ (m % 2 = 1))
             mr == IF up THEN m + 1 ELSE m
         IN IF mr = 16777216 THEN <<8388608, e + 2>> ELSE <<mr, e + 1>>

RECURSIVE F32LongDiv(_, _, _, _)
F32LongDiv(q, r, d, e) ==
    IF q >= 16777216
    THEN F32Round(q, r # 0, e)
    ELSE IF 2 * r >= d
         THEN F32LongDiv(2 * q + 1, 2 * r - d, d, e - 1)
         ELSE F32LongDiv(2 * q, 2 * r, d, e - 1)

\* the float32 nearest to n / d  (n >= 0, d > 0)
F32FromRatio(n, d) ==
    IF n = 0 THEN <<0, 0>> ELSE F32LongDiv(n \div d, n % d, d, 0)

\* float32 product: the 48-bit product of the mantissas from 12-bit halves
F32Mul(a, b) ==
    IF a[1] = 0 \/ b[1] = 0 THEN <<0, 0>>
    ELSE LET ah  == a[1] \div 4096
             al  == a[1] % 4096
             bh  == b[1] \div 4096
             bl  == b[1] % 4096
             mid == ah * bl + al * bh
             u   == (mid % 4096) * 4096 + al * bl
             hi  == ah * bh + (mid \div 4096) + (u \div 16777216)
             lo  == u % 16777216
         IN F32Round(hi * 64 + (lo \div 262144), (lo % 262144) # 0,
                     a[2] + b[2] + 18)

\* float -> integer conversion of a non-negative value: the integer part
F32Trunc(a) ==
    IF a[1] = 0 \/ a[2] <= -24 THEN 0
    ELSE IF a[2] >= 0 THEN a[1] * (2 ^ a[2])
    ELSE a[1] \div (2 ^ (-a[2]))

(***************************************************************************)
(* make_vignette_mask.  The strength is carried in hundredths (snum/100)   *)
(* and a mask value in units of 1/32768: the float64 square roots and      *)
(* quotient are evaluated in fixed point, which is exact wherever the      *)
(* value is 1.0 or 1 - strength.                                           *)
(***************************************************************************)
RECURSIVE IsqrtIter(_, _, _)
IsqrtIter(n, lo, hi) ==
    IF lo >= hi THEN lo
    ELSE LET mid == (lo + hi + 1) \div 2
         IN IF mid * mid <= n THEN IsqrtIter(n, mid, hi)
            ELSE IsqrtIter(n, lo, mid - 1)

\* floor of the square root, n < 2^31
Isqrt(n) == IsqrtIter(n, 0, 46340)

RECURSIVE SqrtScale(_, _)
\* the largest power of 4 that keeps m2 * k below 2^31
SqrtScale(m2, k) == IF m2 * k < 536870912 THEN SqrtScale(m2, 4 * k) ELSE k

Dist2XOnly(w, h, x, y) == (2 * x - w) * (2 * x - w)

\* (X - cx)**2 + (Y - cy)**2 with cx, cy = w/2, h/2, times 4
Dist2(w, h, x, y) == (2 * x - w) * (2 * x - w) + (2 * y - h) * (2 * y - h)

\* cx*cx + cy*cy, times 4
MaxDist2(w, h) == w * w + h * h

DistRatioPixelCentre(w, h, x, y) ==
    LET m2 == MaxDist2(w - 1, h - 1)
        k  == SqrtScale(Max(m2, 1), 1)
    IN IF m2 = 0 THEN 0
       ELSE (Isqrt(Dist2(w - 1, h - 1, x, y) * k) * 32768) \div Isqrt(m2 * k)

\* dist / max_dist, in units of 1/32768
DistRatio(w, h, x, y) ==
    LET k == SqrtScale(MaxDist2(w, h), 1)
    IN (Isqrt(Dist2(w, h, x, y) * k) * 32768) \div Isqrt(MaxDist2(w, h) * k)

\* vign = clip(1.0 - strength * (dist / max_dist), 0.0, 1.0)
VignAt(w, h, snum, x, y) ==
    Clip(32768 - (snum * DistRatio(w, h, x, y)) \div 100, 0, 32768)

\* np.dstack([vign, vign, vign]).astype(np.float32)
make_vignette_mask(w, h, snum) ==
    Arr3([y \in 0..(h - 1) |-> [x \in 0..(w - 1) |->
        LET v == VignAt(w, h, snum, x, y) IN <<v, v, v>>]])

\* strengths enumerated, in hundredths: 0.45 is the factory's
Strengths == {0, 25, 45, 50, 60, 100}

VigInit ==
    /\ vig \in [pc : {"start"}, w : 1..(MaxW + 2), h : 1..(MaxH + 2),
                snum : Strengths, mask : {<<>>}]
    /\ scan = Idle
    /\ pipe = Idle
    /\ other = Idle

\* lines 41-49
VigMake ==
    /\ vig.pc = "start"
    /\ vig' = [vig EXCEPT !.pc = "made",
                          !.mask = make_vignette_mask(vig.w, vig.h, vig.snum)]
    /\ UNCHANGED <<scan, pipe, other>>

SpecVignette == VigInit /\ [][VigMake]_vars

Pixels(w, h) == (0..(w - 1)) \X (0..(h - 1))

\* C4: a pixel nearer to the centre (w/2, h/2) in Euclidean distance has a
\* mask value at least that of a farther one; every value lies in
\* [1 - strength, 1]; the three channels carry the same value.
C4_Monotone ==
    vig.pc = "made" =>
        /\ \A p \in Pixels(vig.w, vig.h) : \A q \in Pixels(vig.w, vig.h) :
             ((2 * p[1] - vig.w) * (2 * p[1] - vig.w)
                 + (2 * p[2] - vig.h) * (2 * p[2] - vig.h)
               < (2 * q[1] - vig.w) * (2 * q[1] - vig.w)
                 + (2 * q[2] - vig.h) * (2 * q[2] - vig.h))
             => vig.mask[p[2]][p[1]][1] >= vig.mask[q[2]][q[1]][1]
        /\ \A p \in Pixels(vig.w, vig.h) :
             /\ vig.mask[p[2]][p[1]][1] >= 32768 - (vig.snum * 32768) \div 100
             /\ vig.mask[p[2]][p[1]][1] <= 32768
             /\ vig.mask[p[2]][p[1]][2] = vig.mask[p[2]][p[1]][1]
             /\ vig.mask[p[2]][p[1]][3] = vig.mask[p[2]][p[1]][1]

\* a mask with three different distances and strictly decreasing values
C4_Witness ==
    /\ vig.pc = "made" /\ vig.w = 3 /\ vig.h = 3 /\ vig.snum = 45
    /\ vig.mask[1][1][1] > vig.mask[1][0][1]
    /\ vig.mask[1][0][1] > vig.mask[0][0][1]
    /\ vig.mask[0][0][1] = 32768 - (45 * 32768) \div 100

(***************************************************************************)
(* The vignette multiplication of effect (lines 93-96), on its own.        *)
(***************************************************************************)
\* numpy broadcasting of one axis
BroadcastOK(a, b) == a = b \/ a = 1 \/ b = 1

\* one sample: float32(v) / 255.0 * mask * 255.0, clipped, integer part
VignetteSample(v, m) ==
    Clip(F32Trunc(F32Mul(F32Mul(F32FromRatio(v, 255), F32FromRatio(m, 32768)),
                         <<16711680, -16>>)),
         0, 255)

\* np.clip(arr / 255.0 * vignette * 255.0, 0, 255), before the uint8 cast;
\* <<>> when the two shapes do not broadcast (numpy raises ValueError)
VignetteWide(pil2, vignette) ==
    LET fh == Height(pil2)
        fw == Width(pil2)
        mh == Height(vignette)
        mw == Width(vignette)
    IN IF ~(BroadcastOK(fh, mh) /\ BroadcastOK(fw, mw)) THEN <<>>
       ELSE MakeImg(Max(fh, mh), Max(fw, mw),
               LAMBDA y, x :
                  [c \in 1..3 |->
                      VignetteSample(
                          pil2[IF fh = 1 THEN 0 ELSE y][IF fw = 1 THEN 0 ELSE x][c],
                          vignette[IF mh = 1 THEN 0 ELSE y][IF mw = 1 THEN 0 ELSE x][c])])

MapSamples(img, F(_)) ==
    Arr3([y \in DOMAIN img |-> [x \in DOMAIN img[y] |->
        [c \in DOMAIN img[y][x] |-> F(img[y][x][c])]]])

UniformFrame(h, w, v) == MakeImg(h, w, LAMBDA y, x : <<v, v, v>>)

\* sample values enumerated for uniform frames
Greys == {0, 1, 100, 128, 255}

VigOnlyInit ==
    /\ vig \in [pc : {"start"}, w : 1..MaxW, h : 1..MaxH, snum : Strengths,
                mask : {<<>>}, v : Greys, out : {<<>>}]
              \cup
              [pc : {"start"}, w : {100}, h : {100}, snum : {50},
                mask : {<<>>}, v : {255}, out : {<<>>}]
    /\ scan = Idle
    /\ pipe = Idle
    /\ other = Idle

\* lines 94-96 applied to a solid frame of the mask's size
VigApply ==
    /\ vig.pc = "made"
    /\ vig' = [vig EXCEPT
                 !.pc = "applied",
                 !.out = MapSamples(
                            VignetteWide(UniformFrame(vig.h, vig.w, vig.v), vig.mask),
                            AsUint8)]
    /\ UNCHANGED <<scan, pipe, other>>

VigOnlyNext == VigMake \/ VigApply

SpecVignetteOnly == VigOnlyInit /\ [][VigOnlyNext]_vars

White100 ==
    vig.pc = "applied" /\ vig.w = 100 /\ vig.h = 100 /\ vig.snum = 50 /\ vig.v = 255

Corners100 == {<<0, 0>>, <<99, 0>>, <<0, 99>>, <<99, 99>>}

\* C3 as stated: on the white 100x100 frame at strength 0.5 the centre
\* pixel stays 255 and every corner pixel is 128 within +/-1.
C3_Original ==
    White100 =>
        /\ vig.out[50][50] = <<255, 255, 255>>
        /\ \A p \in Corners100 : \A c \in 1..3 :
               Abs(vig.out[p[2]][p[1]][c] - 128) <= 1

\* C3 amended: the centre pixel (50,50) stays 255; the corner (0,0), the
\* pixel farthest from the centre (w/2, h/2), gets 127, the corners (99,0)
\* and (0,99) get 128 and the corner (99,99) gets 130.  For every size and
\* strength the mask is 1 - strength at pixel (0,0), and 1.0 at pixel
\* (w/2, h/2) when width and height are even.
C3_Vignette ==
    /\ White100 =>
        /\ vig.out[50][50] = <<255, 255, 255>>
        /\ vig.out[0][0] = <<127, 127, 127>>
        /\ vig.out[0][99] = <<128, 128, 128>>
        /\ vig.out[99][0] = <<128, 128, 128>>
        /\ vig.out[99][99] = <<130, 130, 130>>
    /\ vig.pc # "start" =>
        /\ vig.mask[0][0][1] = 32768 - (vig.snum * 32768) \div 100
        /\ (vig.w % 2 = 0 /\ vig.h % 2 = 0) =>
               vig.mask[vig.h \div 2][vig.w \div 2][1] = 32768

C3_Witness == White100 /\ vig.out[50][50][1] = 255 /\ vig.out[99][99][1] = 130

(***************************************************************************)
(* effect, the per-frame transform returned by frame_effect_factory.       *)
(* Every step maps the record of buffers the call can reach (the caller's  *)
(* frame, the two shared masks, the locals) to the record after the step.  *)
(***************************************************************************)
\* shift = max(1, width // 640 * 2)
Shift(width) == Max(1, (width \div 640) * 2)

ChannelShiftZeroFill(img, c, s) ==
    LET w == Width(img)
    IN Arr2([y \in DOMAIN img |-> [x \in DOMAIN img[y] |->
          IF x - s >= 0 /\ x - s < w THEN img[y][x - s][c] ELSE 0]])

\* np.roll(img[:, :, c], s, axis=1): the sample at column k moves to (k + s) mod w
ChannelRoll(img, c, s) ==
    LET w == Width(img)
    IN Arr2([y \in DOMAIN img |-> [x \in DOMAIN img[y] |-> img[y][(x - s) % w][c]]])

\* lines 68-72
ChromaticAberration(img, width) ==
    LET shift == Shift(width)
        r == ChannelRoll(img, 1, -shift)
        b == ChannelRoll(img, 3, shift)
    IN Arr3([y \in DOMAIN img |-> [x \in DOMAIN img[y] |->
          <<WrapInt16(r[y][x]), WrapInt16(img[y][x][2]), WrapInt16(b[y][x])>>]])

ContrastSampleNoBias(v) == TruncDiv(Clip(12800 + 106 * (v - 128), 0, 25500), 100)

\* np.clip(128 + 1.06 * (v - 128) + 4, 0, 255), integer part; the float64
\* evaluation equals the exact value in hundredths on all of 0..255
ContrastSample(v) == TruncDiv(Clip(12800 + 106 * (v - 128) + 400, 0, 25500), 100)

\* line 75 and the clip of line 76
ContrastWide(img) == MapSamples(img, ContrastSample)

\* np.clip(combined.astype(np.int16) + noise, 0, 255)
GrainWide(img, noise) ==
    Arr3([y \in DOMAIN img |-> [x \in DOMAIN img[y] |->
        [c \in 1..3 |-> Clip(WrapInt16(img[y][x][c] + noise[y][x][c]), 0, 255)]]])

\* one sample of PIL's UnsharpMask(radius=1, percent=120, threshold=3)
UnsharpSample(v, blurred) ==
    IF Abs(v - blurred) >= 3
    THEN Clip(v + TruncDiv((v - blurred) * 120, 100), 0, 255)
    ELSE v

\* pil.filter(ImageFilter.UnsharpMask(...)): box radius (sqrt(5) - 1) / 2
UnsharpMask(img) ==
    LET blurred == GaussianBlur(img, 29309)
    IN Arr3([y \in DOMAIN img |-> [x \in DOMAIN img[y] |->
          [c \in 1..3 |-> UnsharpSample(img[y][x][c], blurred[y][x][c])]]])

\* convert("RGBA") of an RGB image: a new image, alpha 255
ToRGBA(img) ==
    Arr3([y \in DOMAIN img |-> [x \in DOMAIN img[y] |->
        <<img[y][x][1], img[y][x][2], img[y][x][3], 255>>]])

\* convert("RGB") of an RGBA image: a new image without the alpha
ToRGB(img) ==
    Arr3([y \in DOMAIN img |-> [x \in DOMAIN img[y] |->
        <<img[y][x][1], img[y][x][2], img[y][x][3]>>]])

\* PIL's division by 255
Div255(a) == (a + (a \div 256)) \div 256

\* PIL's "over" of a source pixel on an opaque destination pixel
OverPixel(d, s) ==
    IF s[4] = 0 THEN d
    ELSE [c \in 1..4 |->
            IF c = 4 THEN Div255(255 * 255 + 128)
            ELSE Div255(128 * (s[c] * s[4] + d[c] * (255 - s[4])) + 16384) \div 128]

\* dst.alpha_composite(src): dst is overwritten where src covers it (PIL
\* crops dst to src's box, composites, and pastes the result back clipped
\* to dst, so sizes that differ raise nothing)
AlphaCompositeInPlace(bufs, dst, src) ==
    [bufs EXCEPT ![dst] =
        Arr3([y \in DOMAIN bufs[dst] |-> [x \in DOMAIN bufs[dst][y] |->
            IF y < Height(bufs[src]) /\ x < Width(bufs[src])
            THEN OverPixel(bufs[dst][y][x], bufs[src][y][x])
            ELSE bufs[dst][y][x]]])]

OverlayReblursMask(bufs) ==
    LET b1 == [bufs EXCEPT !.scanline_img = ScanlineBlur(bufs.scanline_img),
                           !.scan = ScanlineBlur(bufs.scanline_img),
                           !.base_rgba = ToRGBA(bufs.pil)]
        b2 == AlphaCompositeInPlace(b1, "base_rgba", "scan")
    IN  [b2 EXCEPT !.pil2 = ToRGB(b2.base_rgba)]

\* lines 88-91
OverlayScanlines(bufs) ==
    LET b1 == [bufs EXCEPT !.scan = bufs.scanline_img,
                           !.base_rgba = ToRGBA(bufs.pil)]
        b2 == AlphaCompositeInPlace(b1, "base_rgba", "scan")
    IN  [b2 EXCEPT !.pil2 = ToRGB(b2.base_rgba)]

\* lines 65-76
GradeStep(bufs, width) ==
    LET b1 == [bufs EXCEPT !.img = MapSamples(bufs.frame, WrapInt16)]
        b2 == [b1 EXCEPT !.shifted = ChromaticAberration(b1.img, width)]
        b3 == [b2 EXCEPT !.contrastWide = ContrastWide(b2.shifted)]
    IN  [b3 EXCEPT !.combined = MapSamples(b3.contrastWide, AsUint8)]

\* lines 79-85
GrainStep(bufs, noise) ==
    LET b1 == [bufs EXCEPT !.contrast = bufs.combined,
                           !.noise = noise,
                           !.grainWide = GrainWide(bufs.combined, noise)]
        b2 == [b1 EXCEPT !.combined = MapSamples(b1.grainWide, AsUint8)]
    IN  [b2 EXCEPT !.pil = UnsharpMask(b2.combined)]

\* lines 94-98
VignetteStep(bufs) ==
    LET wide == VignetteWide(bufs.pil2, bufs.vignette)
    IN  [bufs EXCEPT !.vignetteWide = wide,
                     !.raised = IF wide = <<>> THEN "ValueError" ELSE "",
                     !.arr = MapSamples(wide, AsUint8)]

NoBufs ==
    [frame |-> <<>>, scanline_img |-> <<>>, vignette |-> <<>>, img |-> <<>>,
     shifted |-> <<>>, contrastWide |-> <<>>, contrast |-> <<>>,
     noise |-> <<>>, grainWide |-> <<>>, combined |-> <<>>, pil |-> <<>>,
     scan |-> <<>>, base_rgba |-> <<>>, pil2 |-> <<>>, vignetteWide |-> <<>>,
     arr |-> <<>>, raised |-> ""]

\* the whole call: the buffers when it returns or raises
effect(width, scanline_img, vignette, frame, noise) ==
    LET b0 == [NoBufs EXCEPT !.frame = frame, !.scanline_img = scanline_img,
                             !.vignette = vignette]
    IN  VignetteStep(OverlayScanlines(GrainStep(GradeStep(b0, width), noise)))

(***************************************************************************)
(* The pipeline: frame_effect_factory builds the two masks once, then      *)
(* effect is called frame by frame.  pipe.given and pipe.built remember    *)
(* the frame as it was passed and the masks as they were built.            *)
(***************************************************************************)
\* np.random.normal(0, grain_std, shape).astype(np.int16): two values laid
\* out as a checkerboard over pixels and channels; all zero when the
\* standard deviation is 0
NoisePairs(grain_std) ==
    IF grain_std = 0 THEN {<<0, 0>>} ELSE {<<0, 0>>, <<9, -40>>}

NoiseField(h, w, pair) ==
    MakeImg(h, w, LAMBDA y, x :
        [c \in 1..3 |-> IF (x + y + c) % 2 = 0 THEN pair[1] ELSE pair[2]])

\* a frame that is 0 but for column k, which is (255, 200, 100)
StripeFrame(h, w, k) ==
    MakeImg(h, w, LAMBDA y, x : IF x = k THEN <<255, 200, 100>> ELSE <<0, 0, 0>>)

\* a frame whose samples differ from column to column and row to row
RampFrame(h, w) ==
    MakeImg(h, w, LAMBDA y, x :
        <<(40 * x + 90 * y) % 256, (250 - 3 * x - y) % 256, (7 + 120 * x + y) % 256>>)

\* frames of the bound shape: every single-column stripe (three of them
\* on a wide frame), a ramp and a flat grey
MatchingFrames(width, height) ==
    IF width > MaxW + 3
    THEN {StripeFrame(height, width, k) : k \in {0, 1, width - 1}}
    ELSE {StripeFrame(height, width, k) : k \in 0..(width - 1)}
           \cup {RampFrame(height, width), UniformFrame(height, width, 128)}

\* frames whose shape differs from the bound one: a single row, a single
\* column, one row more, one row and two columns more
MismatchedFrames(width, height) ==
    IF width > MaxW + 3 THEN {}
    ELSE {RampFrame(sh[1], sh[2]) :
            sh \in {<<1, width>>, <<height, 1>>, <<height + 1, width>>,
                    <<height + 1, width + 2>>} \ {<<height, width>>}}

\* the calls enumerated: <<frame, noise pair>>
Inputs(width, height, grain_std) ==
    (MatchingFrames(width, height) \X
        (IF width > MaxW + 3 THEN {<<0, 0>>} ELSE NoisePairs(grain_std)))
    \cup (MismatchedFrames(width, height) \X {<<0, 0>>})

NewPipe(width, height, inum, snum, grain_std) ==
    [pc |-> "new", width |-> width, height |-> height, inum |-> inum,
     snum |-> snum, grain_std |-> grain_std, scanline_img |-> <<>>,
     vignette |-> <<>>, built |-> <<>>, frame |-> <<>>, given |-> <<>>,
     noise |-> <<>>, bufs |-> NoBufs, out |-> <<>>, raised |-> "",
     calls |-> 0]

\* lines 60-61, with the intensity and the strength of the pipeline
Build(p) ==
    LET sl == make_scanline_image(p.width, p.height, p.inum, 1, 2)
        vg == make_vignette_mask(p.width, p.height, p.snum)
    IN [p EXCEPT !.pc = "ready", !.scanline_img = sl, !.vignette = vg,
                 !.built = [scanline_img |-> sl, vignette |-> vg]]

\* one call effect(frame) with the noise it draws
Call(p, frame, noise) ==
    LET b == effect(p.width, p.scanline_img, p.vignette, frame, noise)
    IN [p EXCEPT !.scanline_img = b.scanline_img, !.vignette = b.vignette,
                 !.frame = b.frame, !.given = frame, !.noise = noise,
                 !.bufs = b, !.out = b.arr, !.raised = b.raised,
                 !.calls = p.calls + 1]

\* the pipeline of process(): intensity 0.08, strength 0.45, grain_std 6;
\* the widths 640 and 1280 (target_w) make the shift 2 and 4
Init ==
    /\ pipe \in {NewPipe(w, h, 80, 45, 6) : w \in 1..MaxW, h \in 1..MaxH}
                \cup {NewPipe(640, 1, 80, 45, 6), NewPipe(1280, 1, 80, 45, 6)}
    /\ scan = Idle
    /\ vig = Idle
    /\ other = Idle

Factory ==
    /\ pipe.pc = "new"
    /\ pipe' = Build(pipe)
    /\ UNCHANGED <<scan, vig, other>>

Transform ==
    /\ pipe.pc = "ready"
    /\ pipe.calls < MaxCalls
    /\ \E in \in Inputs(pipe.width, pipe.height, pipe.grain_std) :
         pipe' = Call(pipe, in[1],
                      NoiseField(Height(in[1]), Width(in[1]), in[2]))
    /\ UNCHANGED <<scan, vig, other>>

Next == Factory \/ Transform

Spec == Init /\ [][Next]_vars

\* a call has been made with a frame of the bound shape
Matching(p) ==
    p.calls > 0 /\ Height(p.given) = p.height /\ Width(p.given) = p.width

InRange(img) ==
    \A y \in DOMAIN img : \A x \in DOMAIN img[y] : \A c \in DOMAIN img[y][x] :
        img[y][x][c] >= 0 /\ img[y][x][c] <= 255

\* C1: with shift = max(1, 2 * floor(W / 640)), the red sample at column c
\* of the shifted frame is the input red sample at column (c + shift) mod W,
\* the blue one the input blue sample at column (c - shift) mod W, and the
\* green channel is the input's; nothing is dropped or zero-filled.
C1_ChannelShift ==
    Matching(pipe) =>
        LET W == pipe.width
            shift == IF 2 * (W \div 640) >= 1 THEN 2 * (W \div 640) ELSE 1
        IN \A y \in 0..(pipe.height - 1) : \A c \in 0..(W - 1) :
             /\ pipe.bufs.shifted[y][c][1] = pipe.given[y][(c + shift) % W][1]
             /\ pipe.bufs.shifted[y][c][2] = pipe.given[y][c][2]
             /\ pipe.bufs.shifted[y][c][3] = pipe.given[y][(c - shift) % W][3]

\* a 640-wide frame with its stripe in column 0: the red stripe wraps to
\* column 638 and the blue stripe moves to column 2
C1_Witness ==
    /\ Matching(pipe)
    /\ pipe.width = 640
    /\ pipe.given[0][0] = <<255, 200, 100>>
    /\ pipe.bufs.shifted[0][638] = <<255, 0, 0>>
    /\ pipe.bufs.shifted[0][0] = <<0, 200, 0>>
    /\ pipe.bufs.shifted[0][2] = <<0, 0, 100>>

\* C2: for every frame of 8-bit samples and every noise drawn, the output
\* of each of the six stages has every sample in 0..255, and each value
\* cast to 8 bits is already in 0..255, so that the cast wraps nothing.
C2_RangePreserved ==
    pipe.calls > 0 =>
        /\ InRange(pipe.bufs.shifted)
        /\ InRange(pipe.bufs.contrastWide)
        /\ InRange(pipe.bufs.contrast)
        /\ pipe.bufs.contrast = pipe.bufs.contrastWide
        /\ InRange(pipe.bufs.grainWide)
        /\ InRange(pipe.bufs.combined)
        /\ pipe.bufs.combined = pipe.bufs.grainWide
        /\ InRange(pipe.bufs.pil)
        /\ InRange(pipe.bufs.pil2)
        /\ InRange(pipe.bufs.vignetteWide)
        /\ InRange(pipe.out)
        /\ pipe.out = pipe.bufs.vignetteWide

\* a call in which the grain sum leaves 0..255 at both ends and is clamped
C2_Witness ==
    /\ Matching(pipe)
    /\ pipe.raised = ""
    /\ \E y \in DOMAIN pipe.out : \E x \in DOMAIN pipe.out[y] : \E c \in 1..3 :
          /\ pipe.bufs.contrast[y][x][c] + pipe.noise[y][x][c] > 255
          /\ pipe.bufs.combined[y][x][c] = 255
    /\ \E y \in DOMAIN pipe.out : \E x \in DOMAIN pipe.out[y] : \E c \in 1..3 :
          /\ pipe.bufs.contrast[y][x][c] + pipe.noise[y][x][c] < 0
          /\ pipe.bufs.combined[y][x][c] = 0

\* C7: a frame whose height or width differs from the bound (H, W) is
\* rejected with an error and no output frame is returned, frames of height
\* or width 1 included; no stage is left partially applied on the caller's
\* frame or the masks; a frame of the bound shape never raises.
C7_MismatchRejected ==
    pipe.calls > 0 =>
        /\ ~Matching(pipe) => (pipe.raised = "ValueError" /\ pipe.out = <<>>)
        /\ Matching(pipe) => pipe.raised = ""
        /\ pipe.frame = pipe.given
        /\ pipe.scanline_img = pipe.built.scanline_img
        /\ pipe.vignette = pipe.built.vignette

\* C8: after any sequence of calls the frame passed is as it was passed,
\* the result of a call on a frame of the bound shape is a frame of that
\* shape, and the two masks are as the factory built them; a call advances
\* only the count of noise draws.
C8_FrameCondition ==
    pipe.calls > 0 =>
        /\ pipe.frame = pipe.given
        /\ pipe.scanline_img = pipe.built.scanline_img
        /\ pipe.vignette = pipe.built.vignette
        /\ Matching(pipe) =>
              /\ Height(pipe.out) = Height(pipe.given)
              /\ Width(pipe.out) = Width(pipe.given)

\* two calls made, on a mask that darkens row 0 and a frame that is not flat
C8_Witness ==
    /\ pipe.calls = 2
    /\ Matching(pipe)
    /\ pipe.height >= 2 /\ pipe.width >= 2
    /\ pipe.scanline_img[0][0][4] > 0
    /\ pipe.given = RampFrame(pipe.height, pipe.width)
    /\ pipe.out # pipe.given
    /\ pipe.scanline_img = pipe.built.scanline_img

(***************************************************************************)
(* The pipeline with grain, scanlines and vignette disabled, one call on a  *)
(* flat frame: effect's stages with the three constants of lines 60, 61    *)
(* and 79 (0.08, 0.45, 6) set to 0.                                        *)
(***************************************************************************)
FlatInit ==
    /\ pipe \in {NewPipe(w, h, 0, 0, 0) : w \in 1..MaxW, h \in 1..MaxH}
                \cup {NewPipe(4, 4, 0, 0, 0)}
    /\ scan = Idle
    /\ vig = Idle
    /\ other = Idle

TransformFlat ==
    /\ pipe.pc = "ready"
    /\ pipe.calls = 0
    /\ \E v \in 0..255 :
         pipe' = Call(pipe, UniformFrame(pipe.height, pipe.width, v),
                      NoiseField(pipe.height, pipe.width, <<0, 0>>))
    /\ UNCHANGED <<scan, vig, other>>

FlatNext == Factory \/ TransformFlat

SpecFlat == FlatInit /\ [][FlatNext]_vars

\* C6: on a frame whose samples all equal v, with grain, scanlines and
\* vignette disabled, the result has the frame's shape and every sample is
\* the integer part of clamp(128 + 1.06 * (v - 128) + 4, 0, 255).
C6_UniformFrame ==
    pipe.calls > 0 =>
        LET v == pipe.given[0][0][1]
            t == 13200 + 106 * (v - 128)
            expected == IF t < 0 THEN 0 ELSE IF t > 25500 THEN 255 ELSE t \div 100
        IN /\ pipe.raised = ""
           /\ pipe.out = [y \in 0..(pipe.height - 1) |->
                            [x \in 0..(pipe.width - 1) |->
                                <<expected, expected, expected>>]]

C6_Witness ==
    /\ pipe.calls > 0
    /\ pipe.width = 4 /\ pipe.height = 4
    /\ pipe.given[0][0] = <<128, 128, 128>>
    /\ \A y \in 0..3 : \A x \in 0..3 : pipe.out[y][x] = <<132, 132, 132>>

(***************************************************************************)
(* Two pipelines built alike, each transforming its own sequence of        *)
(* frames.                                                                 *)
(***************************************************************************)
TwoInit ==
    /\ pipe \in {NewPipe(3, 2, 80, 45, 6), NewPipe(2, 3, 80, 45, 6)}
    /\ other = pipe
    /\ scan = Idle
    /\ vig = Idle

FactoryOther ==
    /\ other.pc = "new"
    /\ other' = Build(other)
    /\ UNCHANGED <<scan, vig, pipe>>

TwoInputs(p) ==
    {StripeFrame(p.height, p.width, 0), RampFrame(p.height, p.width)}
        \X NoisePairs(p.grain_std)

TransformOne ==
    /\ pipe.pc = "ready"
    /\ pipe.calls < MaxCalls
    /\ \E in \in TwoInputs(pipe) :
         pipe' = Call(pipe, in[1], NoiseField(pipe.height, pipe.width, in[2]))
    /\ UNCHANGED <<scan, vig, other>>

TransformOther ==
    /\ other.pc = "ready"
    /\ other.calls < MaxCalls
    /\ \E in \in TwoInputs(other) :
         other' = Call(other, in[1], NoiseField(other.height, other.width, in[2]))
    /\ UNCHANGED <<scan, vig, pipe>>

TwoNext == Factory \/ FactoryOther \/ TransformOne \/ TransformOther

SpecTwoRuns == TwoInit /\ [][TwoNext]_vars

\* C10: two runs whose latest calls were given the same frame and drew the
\* same noise returned the same frame, whatever frames each run transformed
\* before.
C10_NoTemporalMemory ==
    (pipe.calls > 0 /\ other.calls > 0
       /\ pipe.given = other.given /\ pipe.noise = other.noise)
    => (pipe.out = other.out /\ pipe.raised = other.raised)

\* the runs differ in how many frames came before the common one
C10_Witness ==
    /\ pipe.calls = 2 /\ other.calls = 1
    /\ pipe.given = other.given /\ pipe.noise = other.noise
    /\ pipe.given = RampFrame(pipe.height, pipe.width)
    /\ pipe.noise[0][0][1] # pipe.noise[0][0][2]
    /\ pipe.out = other.out
====
